---- MODULE Spec2Model ----
(***************************************************************************)
(* CampaignCentralx: the CSV import pipeline of server/routes.ts over the  *)
(* store of server/storage.ts and the tables of shared/schema.ts.          *)
(*                                                                         *)
(* A request to POST /api/campaigns runs synchronously up to its next      *)
(* await; every await is one store operation (or the CSV parse).  One      *)
(* action below is one such step: the store operation together with the   *)
(* handler code that runs until the next operation is issued.  Requests    *)
(* of different clients interleave at these steps, and DELETE              *)
(* /api/campaigns/:id may run between any two of them.                     *)
(***************************************************************************)
EXTENDS Integers, Sequences, FiniteSets, TLC

\* ---------------------------------------------------------------- bounds
NumReq == 2
MaxRows == 250

Reqs == 1..NumReq

\* ------------------------------------------------------- program constants
batchSize == 100

StandardFields ==
  {"firstName", "lastName", "title", "company", "email", "mobilePhone",
   "otherPhone", "corporatePhone", "personLinkedinUrl", "companyLinkedinUrl",
   "website"}

\* limits.fileSize of the upload middleware; the client checks the same.
fileSizeLimit == 10 * 1024 * 1024

\* ------------------------------------------------------------------ inputs
\* The file part of a request: a CSV file of exactly the size limit, one a
\* byte larger, and a file that is no CSV.
CsvUpload(size) ==
  [originalname |-> "upload.csv", mimetype |-> "text/csv", size |-> size]

Uploads ==
  {CsvUpload(fileSizeLimit), CsvUpload(fileSizeLimit + 1),
   [originalname |-> "notes.txt", mimetype |-> "text/plain", size |-> 1]}

\* campaignName of the multipart body ("" also stands for a missing field).
Names == {"", "A", "a"}

EmptyObj == [k \in {} |-> ""]

Str(s) == [t |-> "string", v |-> s]
Num(s) == [t |-> "number", v |-> s]

\* The fieldMapping form field.  kind "invalid" is text JSON.parse cannot
\* decode (a missing field included); kind "object" is a decoded JSON object.
Payloads ==
  { [kind |-> "invalid", obj |-> EmptyObj],
    [kind |-> "object",
     obj |-> [email |-> Str("Email"), lastName |-> Str("Name"), firstName |-> Str("skip")]],
    [kind |-> "object", obj |-> [email |-> Str("Email"), nickname |-> Str("Name")]],
    [kind |-> "object", obj |-> [email |-> Num("42")]] }

Unread == [kind |-> "unread", obj |-> EmptyObj]

\* What parseCSV makes of the uploaded buffer: the stream emits 'error'
\* (parse "error"), or it ends with n data rows (parse "ok").
NoFile == [parse |-> "none", n |-> 0]
FilesOf(rowCounts) == [parse : {"ok"}, n : rowCounts] \cup {[parse |-> "error", n |-> 0]}

\* Concurrent imports are explored with files of no rows or two rows;
\* imports that run one after the other with the sizes around the batch
\* boundaries, up to MaxRows.
SmallFiles == FilesOf({0, 2})
Files ==
  FilesOf({0, 1, batchSize - 1, batchSize, batchSize + 1, 2 * batchSize, 250, MaxRows})

headers == <<"Email", "Name">>

\* Row i of a parsed file: a unique e-mail cell, and a name cell that is
\* blank on every even row.
Row(i) ==
  [Email |-> "e" \o ToString(i), Name |-> IF i % 2 = 0 THEN "" ELSE "n"]

Rows(file) == [i \in 1..file.n |-> Row(i)]

\* ------------------------------------------------------------------- state
VARIABLES
  campaigns,        \* table campaigns: a set of rows, keyed by the serial id
  contacts,         \* table contacts, in insertion order
  nextCampaignId,   \* serial of campaigns.id
  nextContactId,    \* serial of contacts.id
  deleted,          \* history: campaign ids a deleteCampaign has run for
  pc,               \* position of each POST /api/campaigns request
  authorized,       \* requireAuth let the request through
  hasFile,          \* req.file is set
  upload,           \* the file part of the request, as it was sent
  campaignName,     \* req.body.campaignName
  fieldMappingRaw,  \* req.body.fieldMapping
  fieldMapping,     \* the validated mapping
  existingCampaign, \* the rows getCampaignByName answered with
  file,             \* what parseCSV made of req.file.buffer
  campaign,         \* the row createCampaign returned (id 0: none yet)
  i,                \* the batch loop's index
  res,              \* the response sent
  calls,            \* history: the store operations each request issued
  arg,              \* the argument a function is applied to on its own
  out,              \* what the function made of it
  modal             \* the upload dialog of the browser: its state and requests

vars == <<campaigns, contacts, nextCampaignId, nextContactId, deleted, pc,
          authorized, hasFile, upload, campaignName, fieldMappingRaw, fieldMapping,
          existingCampaign, file, campaign, i, res, calls, arg, out, modal>>

\* A function applied on its own: its argument and its result.
fn == <<arg, out>>

store == <<campaigns, contacts, nextCampaignId, nextContactId>>

\* The tables and the requests: all but fn.
server == <<campaigns, contacts, nextCampaignId, nextContactId, deleted, pc,
            authorized, hasFile, upload, campaignName, fieldMappingRaw, fieldMapping,
            existingCampaign, file, campaign, i, res, calls>>

NoCampaign ==
  [id |-> 0, name |-> "", fileName |-> "", recordCount |-> 0, fileSize |-> 0,
   status |-> "", fieldMapping |-> EmptyObj]

NoRes == [status |-> 0, message |-> ""]

\* A request without a file part.
NoUpload == [originalname |-> "", mimetype |-> "", size |-> 0]

NoArg == [of |-> "none"]
NoOut == [done |-> FALSE]

\* selectedFile and fileInfo of the upload dialog when they are null.
NoSelection == [name |-> "", type |-> "", size |-> 0]
NoFileInfo ==
  [name |-> "", size |-> 0, rowCount |-> 0, headers |-> <<>>,
   detectedMapping |-> EmptyObj]

\* The state resetModal sets.
ResetModal ==
  [step |-> "upload", selectedFile |-> NoSelection, fileInfo |-> NoFileInfo,
   campaignName |-> "", fieldMapping |-> EmptyObj]

\* The dashboard as it is loaded: the dialog closed, in its first step, no
\* request of its mutations under way (parsing is the file in flight), no
\* toast shown yet.
InitModal ==
  modal = ResetModal @@
          [open |-> FALSE, parsing |-> NoSelection, saving |-> FALSE, toast |-> ""]

\* A server process as it starts: no request under way.
InitRequests ==
  /\ deleted = {}
  /\ pc = [r \in Reqs |-> "idle"]
  /\ authorized = [r \in Reqs |-> FALSE]
  /\ hasFile = [r \in Reqs |-> FALSE]
  /\ upload = [r \in Reqs |-> NoUpload]
  /\ campaignName = [r \in Reqs |-> ""]
  /\ fieldMappingRaw = [r \in Reqs |-> Unread]
  /\ fieldMapping = [r \in Reqs |-> EmptyObj]
  /\ existingCampaign = [r \in Reqs |-> {}]
  /\ file = [r \in Reqs |-> NoFile]
  /\ campaign = [r \in Reqs |-> NoCampaign]
  /\ i = [r \in Reqs |-> 0]
  /\ res = [r \in Reqs |-> NoRes]
  /\ calls = [r \in Reqs |-> <<>>]

\* The server as it starts on an empty database.
InitServer ==
  /\ campaigns = {}
  /\ contacts = <<>>
  /\ nextCampaignId = 1
  /\ nextContactId = 1
  /\ InitRequests
  /\ InitModal

Init == InitServer /\ arg = NoArg /\ out = NoOut

\* -------------------------------------------------------- pure functions
Min(a, b) == IF a < b THEN a ELSE b

\* A slice that takes the element at `to` as well.
sliceInclusive(s, from, to) == SubSeq(s, from + 1, Min(to + 1, Len(s)))

\* A slice that forgets where it starts.
sliceHead(s, from, to) == SubSeq(s, 1, Min(to - from, Len(s)))

\* Array.prototype.slice(from, to) on a 0-based array.
slice(s, from, to) == SubSeq(s, from + 1, Min(to, Len(s)))

\* JSON.parse(fieldMappingRaw): throws on text that is not JSON.
JSONparse(raw) == [ok |-> raw.kind = "object", value |-> raw.obj]

\* fieldMappingSchema.parse: a z.object of eleven optional strings.  A known
\* key whose value is not a string raises ZodError; z.object strips the keys
\* it does not know.
fieldMappingSchemaParse(obj) ==
  LET known == DOMAIN obj \cap StandardFields
  IN  [ok    |-> \A k \in known : obj[k].t = "string",
       value |-> [k \in known |-> obj[k].v]]

\* A name check that lets every name through.
nameMissingNever(name) == FALSE

\* if (!campaignName)
nameMissing(name) == name = ""

\* A lookup that never finds a row.
getCampaignByNameNone(name) == {}

\* storage.getCampaignByName: the rows whose name equals `name`; the caller
\* takes the first of them, so it sees a campaign iff the set is not empty.
getCampaignByName(name) == {c \in campaigns : c.name = name}

\* A row map that copies blank cells as well.
contactDataKeepsBlank(row, mapping) ==
  LET set == {f \in DOMAIN mapping :
                /\ mapping[f] # ""
                /\ mapping[f] # "skip"
                /\ mapping[f] \in DOMAIN row}
  IN  [f \in set |-> row[mapping[f]]]

\* The row map of the handler: a field is set iff its column is truthy, is
\* not 'skip', and the row's cell for it is truthy.
contactData(row, mapping) ==
  LET set == {f \in DOMAIN mapping :
                /\ mapping[f] # ""
                /\ mapping[f] # "skip"
                /\ mapping[f] \in DOMAIN row
                /\ row[mapping[f]] # ""}
  IN  [f \in set |-> row[mapping[f]]]

\* JSON.stringify of a flat record of strings: the text holds the record's
\* entries, key by key.
JSONstringify(obj) == [json |-> {<<k, obj[k]>> : k \in DOMAIN obj}]

\* encrypt(text): the blob is iv ':' ciphertext, held here as its two parts.
encrypt(text) == [iv |-> "iv", data |-> text]

\* The second part of a stored value that holds no ':'.
Undefined == [undefined |-> TRUE]

\* A decrypt without its try/catch.
decryptUncaught(encryptedData, final) ==
  LET encrypted == encryptedData.data
  IN  IF encrypted = Undefined \/ ~final
      THEN [threw |-> TRUE, value |-> Undefined]
      ELSE [threw |-> FALSE, value |-> encrypted]

\* decrypt(encryptedData): the value is split at ':' and the second part
\* deciphered; decipher.update throws on a missing part, and decipher.final
\* throws (final is FALSE) when the key or the authentication does not fit.
\* Whatever is thrown is caught, and the value is returned as it was given.
decrypt(encryptedData, final) ==
  LET encrypted == encryptedData.data
  IN  IF encrypted = Undefined \/ ~final
      THEN [threw |-> FALSE, value |-> encryptedData]
      ELSE [threw |-> FALSE, value |-> encrypted]

\* An insert record whose blob is made of the whole parsed row.
insertContactSealsRow(campaignId, row, mapping) ==
  contactData(row, mapping) @@
  [campaignId |-> campaignId, encryptedData |-> encrypt(JSONstringify(row))]

\* An insert record that takes the id of the campaign created last.
insertContactOfLatest(campaignId, row, mapping) ==
  contactData(row, mapping) @@
  [campaignId |-> nextCampaignId - 1,
   encryptedData |-> encrypt(JSONstringify(contactData(row, mapping)))]

\* insertContactSchema.parse({campaignId, encryptedData, ...contactData}),
\* encryptedData being encrypt(JSON.stringify(contactData))
insertContact(campaignId, row, mapping) ==
  contactData(row, mapping) @@
  [campaignId |-> campaignId,
   encryptedData |-> encrypt(JSONstringify(contactData(row, mapping)))]

\* rows.map(...): one insert record per row, in row order.
contactsData(rows, campaignId, mapping) ==
  [k \in 1..Len(rows) |-> insertContact(campaignId, rows[k], mapping)]

\* An insert that loses the last row of every list it is given.
createContactsDropsLast(insertContacts) ==
  [k \in 1..(Len(insertContacts) - 1) |->
     insertContacts[k] @@ [id |-> nextContactId + k - 1]]

\* storage.createContacts: nothing for an empty list; else the rows as
\* inserted, ids taken from the serial.
createContacts(insertContacts) ==
  IF Len(insertContacts) = 0 THEN <<>>
  ELSE [k \in 1..Len(insertContacts) |->
          insertContacts[k] @@ [id |-> nextContactId + k - 1]]

\* A foreign key that is not enforced.
referencesUnchecked(campaignId) == TRUE

\* contacts.campaign_id references campaigns.id: an insert for a campaign
\* that is gone violates the foreign key.
references(campaignId) == \E c \in campaigns : c.id = campaignId

\* storage.deleteCampaign: the row goes, and ON DELETE CASCADE takes its
\* contacts with it.
deleteCampaign(id) ==
  /\ campaigns' = {c \in campaigns : c.id # id}
  /\ contacts' = SelectSeq(contacts, LAMBDA c : c.campaignId # id)

\* ------------------------------------------------------------------ strings
lowerCase ==
  [A |-> "a", B |-> "b", C |-> "c", D |-> "d", E |-> "e", F |-> "f", G |-> "g",
   H |-> "h", I |-> "i", J |-> "j", K |-> "k", L |-> "l", M |-> "m", N |-> "n",
   O |-> "o", P |-> "p", Q |-> "q", R |-> "r", S |-> "s", T |-> "t", U |-> "u",
   V |-> "v", W |-> "w", X |-> "x", Y |-> "y", Z |-> "z"]

whitespace == {" ", "\t", "\n", "\r"}

\* String.prototype.toLowerCase
RECURSIVE toLowerCase(_)
toLowerCase(s) ==
  IF Len(s) = 0 THEN ""
  ELSE LET c == Head(s)
       IN  (IF c \in DOMAIN lowerCase THEN lowerCase[c] ELSE c)
             \o toLowerCase(Tail(s))

RECURSIVE trimStart(_)
trimStart(s) ==
  IF Len(s) > 0 /\ Head(s) \in whitespace THEN trimStart(Tail(s)) ELSE s

RECURSIVE trimEnd(_)
trimEnd(s) ==
  IF Len(s) > 0 /\ SubSeq(s, Len(s), Len(s)) \in whitespace
  THEN trimEnd(SubSeq(s, 1, Len(s) - 1))
  ELSE s

\* String.prototype.trim
trim(s) == trimEnd(trimStart(s))

\* String.prototype.includes
includes(s, pattern) ==
  \E k \in 1..(Len(s) - Len(pattern) + 1) :
    SubSeq(s, k, k + Len(pattern) - 1) = pattern

\* String.prototype.endsWith
endsWith(s, suffix) ==
  /\ Len(s) >= Len(suffix)
  /\ SubSeq(s, Len(s) - Len(suffix) + 1, Len(s)) = suffix

\* ------------------------------------------------------------- file checks
\* fileFilter of the upload middleware
fileFilter(f) == f.mimetype = "text/csv" \/ endsWith(f.originalname, ".csv")

\* An upload middleware without a size limit.
uploadSingleUnlimited(f) ==
  IF ~fileFilter(f) THEN [error |-> "Only CSV files are allowed"]
  ELSE [error |-> ""]

\* upload.single('csvFile') on a request with the file part f: multer asks
\* fileFilter when the part begins, and aborts with LIMIT_FILE_SIZE when
\* the part holds more than limits.fileSize bytes.
uploadSingle(f) ==
  IF ~fileFilter(f) THEN [error |-> "Only CSV files are allowed"]
  ELSE IF f.size > fileSizeLimit THEN [error |-> "File too large"]
  ELSE [error |-> ""]

\* validateCSVFile of the client's csv-utils
validateCSVFile(f) ==
  IF ~endsWith(toLowerCase(f.name), ".csv") /\ f.type # "text/csv"
  THEN [valid |-> FALSE, error |-> "Please select a CSV file"]
  ELSE IF f.size > fileSizeLimit
  THEN [valid |-> FALSE, error |-> "File size must be less than 10MB"]
  ELSE [valid |-> TRUE, error |-> ""]

\* ---------------------------------------------------------- field detection
fieldPatterns ==
  [firstName |-> {"first name", "firstname", "fname", "first_name"},
   lastName |-> {"last name", "lastname", "lname", "last_name"},
   title |-> {"title", "job title", "position", "role", "job_title"},
   company |-> {"company", "organization", "employer", "company_name"},
   email |-> {"email", "email address", "e-mail", "email_address"},
   mobilePhone |-> {"mobile", "mobile phone", "cell", "cell phone", "mobile_phone"},
   otherPhone |-> {"phone", "other phone", "telephone", "other_phone"},
   corporatePhone |->
     {"corporate phone", "work phone", "office phone", "corporate_phone"},
   personLinkedinUrl |->
     {"linkedin", "person linkedin", "personal linkedin", "person_linkedin_url"},
   companyLinkedinUrl |-> {"company linkedin", "company_linkedin_url"},
   website |-> {"website", "url", "web", "site"}]

\* patterns.some(pattern => normalizedHeader.includes(pattern))
matches(field, header) ==
  LET normalizedHeader == trim(toLowerCase(header))
  IN  \E pattern \in fieldPatterns[field] : includes(normalizedHeader, pattern)

\* A scan in which a field keeps the first header that matched it.
RECURSIVE scanFirstWins(_, _)
scanFirstWins(hs, mapping) ==
  IF hs = <<>> THEN mapping
  ELSE LET header == Head(hs)
           hit == {f \in DOMAIN fieldPatterns : matches(f, header)}
       IN  scanFirstWins(Tail(hs),
             [f \in DOMAIN mapping \cup hit |->
                IF f \in DOMAIN mapping THEN mapping[f] ELSE header])

detectFieldsFirstWins(hs) == scanFirstWins(hs, EmptyObj)

\* headers.forEach(header => ...): every field one of whose patterns the
\* header contains is assigned the header, over whatever it held.
RECURSIVE scan(_, _)
scan(hs, mapping) ==
  IF hs = <<>> THEN mapping
  ELSE LET header == Head(hs)
           hit == {f \in DOMAIN fieldPatterns : matches(f, header)}
       IN  scan(Tail(hs),
             [f \in DOMAIN mapping \cup hit |->
                IF f \in hit THEN header ELSE mapping[f]])

\* A detection whose mapping object outlives the call: every call goes on
\* from what the call before it left.
detectFieldsKeepsMapping(hs) ==
  scan(hs, IF out.done THEN out.log[Len(out.log)].mapping ELSE EmptyObj)

\* detectFields of server/routes.ts
detectFields(hs) == scan(hs, EmptyObj)

\* detectCSVFields of the client's csv-utils: the same table, the same scan.
detectCSVFields(hs) == scan(hs, EmptyObj)

\* ------------------------------------------------------------ CSV parsing
quote == "\""

Char(s, k) == SubSeq(s, k, k)

\* String.prototype.split(sep) for a one-character separator.
RECURSIVE splitScan(_, _, _)
splitScan(s, sep, cur) ==
  IF Len(s) = 0 THEN <<cur>>
  ELSE IF Head(s) = sep THEN <<cur>> \o splitScan(Tail(s), sep, "")
  ELSE splitScan(Tail(s), sep, cur \o Head(s))

split(s, sep) == splitScan(s, sep, "")

\* .replace(/"/g, '')
RECURSIVE removeQuotes(_)
removeQuotes(s) ==
  IF Len(s) = 0 THEN ""
  ELSE (IF Head(s) = quote THEN "" ELSE Head(s)) \o removeQuotes(Tail(s))

\* The last position of header h in hs.
lastIndex(hs, h) == CHOOSE k \in DOMAIN hs : hs[k] = h /\ \A j \in DOMAIN hs : hs[j] = h => j <= k

\* A row that leaves out the keys of the cells its line lacks.
clientRowSparse(hs, values) ==
  LET short == SubSeq(hs, 1, Min(Len(hs), Len(values)))
  IN  [h \in {short[k] : k \in DOMAIN short} |-> values[lastIndex(short, h)]]

\* headers.forEach((header, index) => row[header] = values[index] || '')
clientRow(hs, values) ==
  [h \in {hs[k] : k \in DOMAIN hs} |->
     IF lastIndex(hs, h) <= Len(values) THEN values[lastIndex(hs, h)] ELSE ""]

\* line.split(',').map(value => value.trim().replace(/"/g, ''))
clientCells(line) ==
  LET parts == split(line, ",")
  IN  [k \in DOMAIN parts |-> removeQuotes(trim(parts[k]))]

\* parseCSVFile of the client's csv-utils, on the text the reader loaded.
parseCSVFile(csv) ==
  LET lines == SelectSeq(split(csv, "\n"), LAMBDA line : trim(line) # "")
  IN  IF Len(lines) = 0
      THEN [ok |-> FALSE, error |-> "CSV file is empty", headers |-> <<>>, rows |-> <<>>]
      ELSE LET hs == clientCells(lines[1])
           IN  [ok |-> TRUE, error |-> "", headers |-> hs,
                rows |-> [k \in 1..(Len(lines) - 1) |->
                            clientRow(hs, clientCells(lines[k + 1]))]]

\* csv-parser, _transform and _flush: the text is cut at every newline that
\* is outside quotes, and what follows the last newline is a line if it is
\* not empty.  k is the position read, previousEnd where the line began.
RECURSIVE csvLines(_, _, _, _)
csvLines(text, k, previousEnd, quoted) ==
  IF k > Len(text)
  THEN IF previousEnd <= Len(text) THEN <<SubSeq(text, previousEnd, Len(text))>>
       ELSE <<>>
  ELSE IF Char(text, k) = quote THEN csvLines(text, k + 1, previousEnd, ~quoted)
  ELSE IF ~quoted /\ Char(text, k) = "\n"
       THEN <<SubSeq(text, previousEnd, k - 1)>> \o csvLines(text, k + 1, k + 1, quoted)
  ELSE csvLines(text, k + 1, previousEnd, quoted)

\* csv-parser, parseCell's loop: a quote before a quote is dropped.
RECURSIVE unescape(_)
unescape(s) ==
  IF Len(s) = 0 THEN ""
  ELSE IF Len(s) >= 2 /\ Char(s, 1) = quote /\ Char(s, 2) = quote
       THEN quote \o unescape(SubSeq(s, 3, Len(s)))
  ELSE Head(s) \o unescape(Tail(s))

\* csv-parser, parseCell: the quotes around a quoted cell are removed.
parseCell(cell) ==
  LET n == Len(cell)
  IN  IF n > 0 /\ Char(cell, 1) = quote /\ Char(cell, n) = quote
      THEN unescape(SubSeq(cell, 2, n - 1))
      ELSE unescape(cell)

\* csv-parser, parseLine: the line is cut at every comma that is outside
\* quotes; a cell is quoted from a quote to the next quote that a comma
\* follows.  offset is where the cell began.
RECURSIVE csvCells(_, _, _, _)
csvCells(line, k, offset, isQuoted) ==
  IF k > Len(line)
  THEN (IF offset <= Len(line) THEN <<parseCell(SubSeq(line, offset, Len(line)))>>
        ELSE <<>>)
       \o (IF Len(line) > 0 /\ Char(line, Len(line)) = "," THEN <<"">> ELSE <<>>)
  ELSE LET c == Char(line, k)
           next == IF k < Len(line) THEN Char(line, k + 1) ELSE "\n"
       IN  IF c = quote /\ (~isQuoted \/ next = ",")
           THEN csvCells(line, k + 1, offset, ~isQuoted)
           ELSE IF isQuoted /\ c = quote /\ next = quote
           THEN csvCells(line, k + 2, offset, isQuoted)
           ELSE IF c = "," /\ ~isQuoted
           THEN <<parseCell(SubSeq(line, offset, k - 1))>>
                  \o csvCells(line, k + 1, k + 1, isQuoted)
           ELSE csvCells(line, k + 1, offset, isQuoted)

\* csv-parser, writeRow: cell k goes under header k, and under _k-1 when
\* the line has more cells than there are headers.
csvKey(hs, k) == IF k <= Len(hs) THEN hs[k] ELSE "_" \o ToString(k - 1)

csvRow(hs, cells) ==
  LET keys == [k \in DOMAIN cells |-> csvKey(hs, k)]
  IN  [h \in {keys[k] : k \in DOMAIN keys} |-> cells[lastIndex(keys, h)]]

\* parseCSV of server/routes.ts: the first line csv-parser reads is emitted
\* as 'headers', every other line as a 'data' row; 'end' resolves with what
\* was collected.  The first row lends its keys when no header was read.
parseCSV(text) ==
  LET lines == csvLines(text, 1, 1, FALSE)
      hs == IF Len(lines) = 0 THEN <<>> ELSE csvCells(lines[1], 1, 1, FALSE)
      cells == [k \in 1..(Len(lines) - 1) |-> csvCells(lines[k + 1], 1, 1, FALSE)]
  IN  [ok |-> TRUE,
       headers |-> IF Len(hs) = 0 /\ Len(cells) > 0
                   THEN [k \in DOMAIN cells[1] |-> csvKey(hs, k)]
                   ELSE hs,
       rows |-> [k \in DOMAIN cells |-> csvRow(hs, cells[k])]]

\* ------------------------------------------------------------ requireAuth
\* String.prototype.replace(pattern, by) with a string pattern: the first
\* occurrence is replaced, wherever it stands.
RECURSIVE replace(_, _, _)
replace(s, pattern, by) ==
  IF Len(s) < Len(pattern) THEN s
  ELSE IF SubSeq(s, 1, Len(pattern)) = pattern
       THEN by \o SubSeq(s, Len(pattern) + 1, Len(s))
       ELSE SubSeq(s, 1, 1) \o replace(Tail(s), pattern, by)

\* The Authorization header of a request: absent, or a string.
NoHeader == [present |-> FALSE, value |-> ""]
Header(s) == [present |-> TRUE, value |-> s]

defaultPassword == "demo123"

\* process.env.ACCESS_PASSWORD || 'demo123' ("" stands for an unset variable
\* as well)
validPassword(ACCESS_PASSWORD) ==
  IF ACCESS_PASSWORD # "" THEN ACCESS_PASSWORD ELSE defaultPassword

\* A middleware that lets every request through.
requireAuthAnyone(authorization, ACCESS_PASSWORD) == TRUE

\* requireAuth: TRUE iff next() is called; otherwise the request is answered
\* 401 'Invalid password'.  An absent header leaves password undefined.
requireAuth(authorization, ACCESS_PASSWORD) ==
  /\ authorization.present
  /\ replace(authorization.value, "Bearer ", "") = validPassword(ACCESS_PASSWORD)

\* ------------------------------------------------------- reads of the store
\* storage.getCampaigns
getCampaigns == campaigns

\* storage.getCampaignById: the rows with that id (the caller takes the
\* first).
getCampaignById(id) == {c \in campaigns : c.id = id}

\* The limit the contacts route passes to getContactsByCampaignId.
listLimit == 10000

\* .limit(100) of searchContactsInCampaign
searchLimit == 100

\* A listing without a limit.
getContactsByCampaignIdAll(campaignId, limit, offset) ==
  SelectSeq(contacts, LAMBDA c : c.campaignId = campaignId)

\* storage.getContactsByCampaignId: the contacts of the campaign, in table
\* order, from offset on and no more than limit.
getContactsByCampaignId(campaignId, limit, offset) ==
  LET rows == SelectSeq(contacts, LAMBDA c : c.campaignId = campaignId)
  IN  SubSeq(rows, offset + 1, Min(offset + limit, Len(rows)))

\* storage.searchContactsInCampaign: the query is not looked at; the first
\* hundred contacts of the campaign are returned.
searchContactsInCampaign(campaignId, searchQuery) ==
  LET rows == SelectSeq(contacts, LAMBDA c : c.campaignId = campaignId)
  IN  SubSeq(rows, 1, Min(searchLimit, Len(rows)))

\* contacts.map(contact => ...): id, campaignId and the eleven standard
\* fields, '' for a column that is not set.
processedContact(contact) ==
  [id |-> contact.id, campaignId |-> contact.campaignId] @@
  [f \in StandardFields |-> IF f \in DOMAIN contact THEN contact[f] ELSE ""]

\* ---------------------------------------------------------------- history
Call(op, b, st) == [op |-> op, batch |-> b, status |-> st]

\* The last (pending) call of r is answered with status st.
Answer(r, st) ==
  [calls[r] EXCEPT ![Len(calls[r])] = [@ EXCEPT !.status = st]]

\* --------------------------------------------------------------- responses
Respond(r, status, message) ==
  /\ res' = [res EXCEPT ![r] = [status |-> status, message |-> message]]
  /\ pc' = [pc EXCEPT ![r] = "done"]

\* A catch block that removes the campaign it had created.
InsertFailsRollsBack(r) ==
  /\ calls' = [calls EXCEPT ![r] = Answer(r, "failed")]
  /\ Respond(r, 500, "Failed to upload campaign")
  /\ deleteCampaign(campaign[r].id)
  /\ UNCHANGED <<nextCampaignId, nextContactId, i>>

\* await storage.createContacts(batch) throws: the catch block answers, and
\* nothing is undone.
InsertFails(r) ==
  /\ calls' = [calls EXCEPT ![r] = Answer(r, "failed")]
  /\ Respond(r, 500, "Failed to upload campaign")
  /\ UNCHANGED <<store, i>>


\* ------------------------------------------------- POST /api/campaigns
\* requireAuth (auth: it called next) and upload.single, then the handler up
\* to its first await: the file and name checks and the validation of the
\* mapping.  It ends by issuing getCampaignByName.
Begin(r, auth) ==
  /\ pc[r] = "idle"
  /\ \A q \in Reqs : q < r => pc[q] # "idle"   \* r is the r-th request to arrive
  /\ \E sent \in Uploads \cup {NoUpload}, name \in Names, raw \in Payloads :
       LET multer == uploadSingle(sent)
           present == sent # NoUpload
           json == JSONparse(raw)
           zod  == fieldMappingSchemaParse(json.value)
       IN
       /\ authorized' = [authorized EXCEPT ![r] = auth]
       /\ upload' = [upload EXCEPT ![r] = IF auth THEN sent ELSE NoUpload]
       /\ hasFile' = [hasFile EXCEPT ![r] = auth /\ present /\ multer.error = ""]
       /\ IF ~auth THEN
            /\ Respond(r, 401, "Invalid password")
            /\ UNCHANGED <<campaignName, fieldMappingRaw, fieldMapping, calls>>
          ELSE IF present /\ multer.error # "" THEN
            \* upload.single passes the error on; the handler is not run
            /\ Respond(r, 500, multer.error)
            /\ UNCHANGED <<campaignName, fieldMappingRaw, fieldMapping, calls>>
          ELSE IF ~present THEN
            /\ Respond(r, 400, "No CSV file provided")
            /\ UNCHANGED <<campaignName, fieldMappingRaw, fieldMapping, calls>>
          ELSE IF nameMissing(name) THEN
            /\ Respond(r, 400, "Campaign name is required")
            /\ UNCHANGED <<campaignName, fieldMappingRaw, fieldMapping, calls>>
          ELSE
            /\ campaignName' = [campaignName EXCEPT ![r] = name]
            /\ fieldMappingRaw' = [fieldMappingRaw EXCEPT ![r] = raw]
            /\ IF ~json.ok THEN
                 \* SyntaxError is no ZodError
                 /\ Respond(r, 500, "Failed to upload campaign")
                 /\ UNCHANGED <<fieldMapping, calls>>
               ELSE IF ~zod.ok THEN
                 /\ Respond(r, 400, "Invalid data format")
                 /\ UNCHANGED <<fieldMapping, calls>>
               ELSE
                 /\ fieldMapping' = [fieldMapping EXCEPT ![r] = zod.value]
                 /\ calls' = [calls EXCEPT ![r] =
                                <<Call("getCampaignByName", <<>>, "pending")>>]
                 /\ pc' = [pc EXCEPT ![r] = "check"]
                 /\ UNCHANGED res
  /\ UNCHANGED <<store, deleted, existingCampaign, file, campaign, i>>

\* A request to POST /api/campaigns arrives, with a header requireAuth lets
\* through or not.
Start(r) ==
  /\ \E auth \in BOOLEAN : Begin(r, auth)
  /\ UNCHANGED <<fn, modal>>

\* A handler that goes on to the parse when the lookup has failed.
GetCampaignByNameGoesOn(r) ==
  /\ pc[r] = "check"
  /\ \E fails \in BOOLEAN :
       /\ calls' = [calls EXCEPT ![r] = Answer(r, IF fails THEN "failed" ELSE "ok")]
       /\ existingCampaign' =
            [existingCampaign EXCEPT ![r] =
               IF fails THEN {} ELSE getCampaignByName(campaignName[r])]
       /\ IF ~fails /\ getCampaignByName(campaignName[r]) # {}
          THEN Respond(r, 400, "Campaign name already exists")
          ELSE pc' = [pc EXCEPT ![r] = "parse"] /\ UNCHANGED res
  /\ UNCHANGED <<fn, modal, store, deleted, authorized, hasFile, upload, campaignName,
                 fieldMappingRaw, fieldMapping, file, campaign, i>>

\* The duplicate-name check: the store answers getCampaignByName, and the
\* handler rejects the name or goes on to parse the buffer.
GetCampaignByName(r) ==
  /\ pc[r] = "check"
  /\ \E fails \in BOOLEAN :
       IF fails THEN
         /\ calls' = [calls EXCEPT ![r] = Answer(r, "failed")]
         /\ Respond(r, 500, "Failed to upload campaign")
         /\ UNCHANGED existingCampaign
       ELSE
         /\ calls' = [calls EXCEPT ![r] = Answer(r, "ok")]
         /\ existingCampaign' =
              [existingCampaign EXCEPT ![r] = getCampaignByName(campaignName[r])]
         /\ IF getCampaignByName(campaignName[r]) # {}
            THEN Respond(r, 400, "Campaign name already exists")
            ELSE pc' = [pc EXCEPT ![r] = "parse"] /\ UNCHANGED res
  /\ UNCHANGED <<fn, modal, store, deleted, authorized, hasFile, upload, campaignName,
                 fieldMappingRaw, fieldMapping, file, campaign, i>>

\* A parse that swallows the stream's error and resolves with no rows.
ParseCSVSwallows(r, files) ==
  /\ pc[r] = "parse"
  /\ \E f \in files :
       /\ file' = [file EXCEPT ![r] = f]
       /\ calls' = [calls EXCEPT ![r] =
                      Append(@, Call("createCampaign", <<>>, "pending"))]
       /\ pc' = [pc EXCEPT ![r] = "create"]
       /\ UNCHANGED res
  /\ UNCHANGED <<fn, modal, store, deleted, authorized, hasFile, upload, campaignName,
                 fieldMappingRaw, fieldMapping, existingCampaign, campaign, i>>

\* parseCSV(req.file.buffer): it rejects, or it resolves with the rows and the
\* handler issues createCampaign.
ParseCSV(r, files) ==
  /\ pc[r] = "parse"
  /\ \E f \in files :
       /\ file' = [file EXCEPT ![r] = f]
       /\ IF f.parse = "error" THEN
            /\ Respond(r, 500, "Failed to upload campaign")
            /\ UNCHANGED calls
          ELSE
            /\ calls' = [calls EXCEPT ![r] =
                           Append(@, Call("createCampaign", <<>>, "pending"))]
            /\ pc' = [pc EXCEPT ![r] = "create"]
            /\ UNCHANGED res
  /\ UNCHANGED <<fn, modal, store, deleted, authorized, hasFile, upload, campaignName,
                 fieldMappingRaw, fieldMapping, existingCampaign, campaign, i>>

\* The store inserts the campaign row; the handler maps the rows and enters
\* the batch loop, issuing createContacts for the first batch if there is one.
CreateCampaign(r) ==
  /\ pc[r] = "create"
  /\ \E fails \in BOOLEAN :
       IF fails THEN
         /\ calls' = [calls EXCEPT ![r] = Answer(r, "failed")]
         /\ Respond(r, 500, "Failed to upload campaign")
         /\ UNCHANGED <<store, campaign, i>>
       ELSE
         \* fileName and fileSize are req.file's metadata, passed through as
         \* given.
         LET created ==
               [id |-> nextCampaignId, name |-> campaignName[r],
                fileName |-> upload[r].originalname,
                recordCount |-> file[r].n,
                fileSize |-> upload[r].size, status |-> "active",
                fieldMapping |-> fieldMapping[r]]
             data == contactsData(Rows(file[r]), created.id, fieldMapping[r])
         IN
         /\ campaigns' = campaigns \cup {created}
         /\ nextCampaignId' = nextCampaignId + 1
         /\ campaign' = [campaign EXCEPT ![r] = created]
         /\ i' = [i EXCEPT ![r] = 0]
         /\ UNCHANGED <<contacts, nextContactId>>
         /\ IF 0 < Len(data) THEN
              /\ calls' = [calls EXCEPT ![r] =
                   Append(Answer(r, "ok"),
                          Call("createContacts", slice(data, 0, batchSize), "pending"))]
              /\ pc' = [pc EXCEPT ![r] = "batch"]
              /\ UNCHANGED res
            ELSE
              /\ calls' = [calls EXCEPT ![r] = Answer(r, "ok")]
              /\ Respond(r, 200, "uploaded successfully")
  /\ UNCHANGED <<fn, modal, deleted, authorized, hasFile, upload, campaignName, fieldMappingRaw,
                 fieldMapping, existingCampaign, file>>

\* The store inserts the pending batch, or fails; the loop advances by
\* batchSize and issues the next batch, or the handler answers.
CreateContacts(r) ==
  /\ pc[r] = "batch"
  /\ LET data == contactsData(Rows(file[r]), campaign[r].id, fieldMapping[r])
         this == slice(data, i[r], i[r] + batchSize)
         next == i[r] + batchSize
     IN
     \E fails \in BOOLEAN :
       IF fails \/ ~references(campaign[r].id) THEN
         InsertFails(r)
       ELSE
         /\ contacts' = contacts \o createContacts(this)
         /\ nextContactId' = nextContactId + Len(this)
         /\ i' = [i EXCEPT ![r] = next]
         /\ UNCHANGED <<campaigns, nextCampaignId>>
         /\ IF next < Len(data) THEN
              /\ calls' = [calls EXCEPT ![r] =
                   Append(Answer(r, "ok"),
                          Call("createContacts", slice(data, next, next + batchSize),
                               "pending"))]
              /\ UNCHANGED <<pc, res>>
            ELSE
              /\ calls' = [calls EXCEPT ![r] = Answer(r, "ok")]
              /\ Respond(r, 200, "uploaded successfully")
  /\ UNCHANGED <<fn, modal, deleted, authorized, hasFile, upload, campaignName, fieldMappingRaw,
                 fieldMapping, existingCampaign, file, campaign>>

\* --------------------------------------------- DELETE /api/campaigns/:id
DeleteCampaign(id) ==
  /\ \E c \in campaigns : c.id = id
  /\ deleteCampaign(id)
  /\ deleted' = deleted \cup {id}
  /\ UNCHANGED <<fn, modal, nextCampaignId, nextContactId, pc, authorized, hasFile, upload,
                 campaignName, fieldMappingRaw, fieldMapping, existingCampaign,
                 file, campaign, i, res, calls>>

Next ==
  \/ \E r \in Reqs : Start(r)
  \/ \E r \in Reqs : GetCampaignByName(r)
  \/ \E r \in Reqs : ParseCSV(r, SmallFiles)
  \/ \E r \in Reqs : CreateCampaign(r)
  \/ \E r \in Reqs : CreateContacts(r)
  \/ \E id \in 1..NumReq : DeleteCampaign(id)

Spec == Init /\ [][Next]_vars

\* One import alone with the store (the first request), over the large
\* files; deletes still come at any moment.
Lead == CHOOSE r \in Reqs : \A q \in Reqs : r <= q

NextBatch ==
  \/ Start(Lead)
  \/ GetCampaignByName(Lead)
  \/ ParseCSV(Lead, Files)
  \/ CreateCampaign(Lead)
  \/ CreateContacts(Lead)
  \/ \E id \in 1..NumReq : DeleteCampaign(id)

SpecBatch == Init /\ [][NextBatch]_vars

\* ------------------------------------------------ the row map on its own
\* The column names a parsed row may carry (a column may be called "skip",
\* and a header cell may be empty), and the cells under them.
Columns == {"Email", "Name", "skip", ""}
Cells == {"", "x", " "}

\* A row holds a cell for some of the columns: csv-parser leaves out the
\* keys of the cells a short line lacks.
TransformRows == UNION {[cols -> Cells] : cols \in SUBSET Columns}

\* A validated mapping: some standard fields, each with a string that is a
\* column of the file, a sentinel, empty, or the name of no column.
MappedFields == {"firstName", "email"}
Targets == Columns \cup {"none", "Phone"}
TransformMappings == UNION {[fs -> Targets] : fs \in SUBSET MappedFields}

InitTransform ==
  /\ InitServer
  /\ arg \in [row : TransformRows, mapping : TransformMappings]
  /\ out = NoOut

\* rows.map(row => ...) on one row.
Transform ==
  /\ ~out.done
  /\ out' = [done |-> TRUE, value |-> contactData(arg.row, arg.mapping)]
  /\ UNCHANGED <<arg, modal, server>>

SpecTransform == InitTransform /\ [][Transform]_vars


\* ------------------------------------------- field detection on its own
MaxHeaders == 3

HeaderPool ==
  {"Company", "Company LinkedIn Url", "First Name", "Last Name", "E-mail",
   "Mobile Phone", "LinkedIn", " EMAIL ", "Phone", "Notes"}

CompanyHeaders == <<"Company", "Company LinkedIn Url">>
TableHeaders == <<"First Name", "Last Name", "E-mail", "Mobile Phone", "LinkedIn">>

\* The header rows detection is run on: every row of up to MaxHeaders
\* headers of the pool, and the two rows of the detection table.
HeaderRows ==
  UNION {[1..n -> HeaderPool] : n \in 0..MaxHeaders}
    \cup {CompanyHeaders, TableHeaders}

InitDetect ==
  /\ InitServer
  /\ arg \in [headers : HeaderRows]
  /\ out = NoOut

\* detectFields(headers) in POST /api/csv/parse
DetectFields ==
  /\ ~out.done
  /\ out' = [done |-> TRUE, by |-> "detectFields",
             value |-> detectFields(arg.headers)]
  /\ UNCHANGED <<arg, modal, server>>

\* detectCSVFields(headers) in the browser
DetectCSVFields ==
  /\ ~out.done
  /\ out' = [done |-> TRUE, by |-> "detectCSVFields",
             value |-> detectCSVFields(arg.headers)]
  /\ UNCHANGED <<arg, modal, server>>

NextDetect == DetectFields \/ DetectCSVFields

SpecDetect == InitDetect /\ [][NextDetect]_vars

\* ------------------------------------------- detection, call after call
MaxCalls == 3

RepeatRows ==
  {<<>>, <<"E-mail">>, <<"Phone", "Mobile Phone">>, CompanyHeaders, TableHeaders}

\* The server answers one detection after the other; the log keeps the
\* header row and the mapping of every call.
DetectionLog == IF out.done THEN out.log ELSE <<>>

DetectAgain ==
  /\ Len(DetectionLog) < MaxCalls
  /\ \E hs \in RepeatRows :
       out' = [done |-> TRUE,
               log |-> Append(DetectionLog,
                              [headers |-> hs, mapping |-> detectFields(hs)])]
  /\ UNCHANGED <<arg, modal, server>>

SpecRepeat == Init /\ [][DetectAgain]_vars

\* ----------------------------------------------- decrypt on its own
\* The texts a blob may hold, and the values found in the encryptedData
\* column: blobs made by encrypt under some iv, and values without a ':'.
BlobFields == {"email", "firstName", "company"}
BlobTexts ==
  {JSONstringify(rec) : rec \in UNION {[fs -> {"x", "y"}] : fs \in SUBSET BlobFields}}
StoredValues ==
  {[encrypt(text) EXCEPT !.iv = iv] : text \in BlobTexts, iv \in {"iv", "0f"}}
    \cup {[iv |-> s, data |-> Undefined] : s \in {"", "plain", "e1"}}

InitDecrypt ==
  /\ InitServer
  /\ arg \in [encryptedData : StoredValues]
  /\ out = NoOut

\* decrypt(encryptedData), the decipher accepting the blob or not.
Decrypt ==
  /\ ~out.done
  /\ \E final \in BOOLEAN :
       out' = [done |-> TRUE, final |-> final] @@ decrypt(arg.encryptedData, final)
  /\ UNCHANGED <<arg, modal, server>>

SpecDecrypt == InitDecrypt /\ [][Decrypt]_vars

\* ------------------------------------------------- CSV parsing on its own
MaxText == 5

Alphabet == {"a", "b", ",", quote, " ", "\n"}

RECURSIVE TextsOf(_)
TextsOf(n) ==
  IF n = 0 THEN {""}
  ELSE LET shorter == TextsOf(n - 1)
       IN  shorter \cup {t \o c : t \in shorter, c \in Alphabet}

QuotedText == "name,title\n\"Doe, Jr.\",CEO\n"
HeaderOnlyText == "Email,Name\n"
ShortRowText == "Email,Name,Title\nx@y.z\n"

\* The texts that are parsed: every text of up to MaxText characters of the
\* alphabet, and three files of a realistic shape.
Texts == TextsOf(MaxText) \cup {QuotedText, HeaderOnlyText, ShortRowText}

InitParse ==
  /\ InitServer
  /\ arg \in [text : Texts]
  /\ out = NoOut

\* parseCSVFile(file) in the browser
ParseCSVFile ==
  /\ ~out.done
  /\ out' = [done |-> TRUE, by |-> "parseCSVFile"] @@ parseCSVFile(arg.text)
  /\ UNCHANGED <<arg, modal, server>>

\* parseCSV(buffer) on the server
ParseBuffer ==
  /\ ~out.done
  /\ out' = [done |-> TRUE, by |-> "parseCSV"] @@ parseCSV(arg.text)
  /\ UNCHANGED <<arg, modal, server>>

\* POST /api/csv/parse once requireAuth and upload.single have passed a
\* file on: the header preview.
CsvParse ==
  /\ ~out.done
  /\ LET parsed == parseCSV(arg.text)
     IN  out' = IF parsed.ok
                THEN [done |-> TRUE, by |-> "POST /api/csv/parse", status |-> 200,
                      headers |-> parsed.headers,
                      detectedMapping |-> detectFields(parsed.headers),
                      rowCount |-> Len(parsed.rows)]
                ELSE [done |-> TRUE, by |-> "POST /api/csv/parse", status |-> 500,
                      message |-> "Failed to parse CSV file"]
  /\ UNCHANGED <<arg, modal, server>>

NextParse == ParseCSVFile \/ ParseBuffer \/ CsvParse

SpecParse == InitParse /\ [][NextParse]_vars

\* ------------------------------------------------ the size limit, both ends
\* The File objects the browser checks: names and types that are and are
\* not CSV, sizes around the limit.
ClientFiles ==
  [name : {"a.csv", "A.CSV", "a.txt"},
   type : {"text/csv", "text/plain"},
   size : {0, fileSizeLimit - 1, fileSizeLimit, fileSizeLimit + 1}]

InitUpload ==
  /\ InitServer
  /\ arg \in [file : ClientFiles]
  /\ out = NoOut

\* validateCSVFile(file) in the browser
ValidateCSVFile ==
  /\ ~out.done
  /\ out' = [done |-> TRUE] @@ validateCSVFile(arg.file)
  /\ UNCHANGED <<arg, modal, server>>

\* One import with the store, and the browser's check of a file.
NextUpload ==
  \/ Start(Lead)
  \/ GetCampaignByName(Lead)
  \/ ParseCSV(Lead, SmallFiles)
  \/ CreateCampaign(Lead)
  \/ CreateContacts(Lead)
  \/ \E id \in 1..NumReq : DeleteCampaign(id)
  \/ ValidateCSVFile

SpecUpload == InitUpload /\ [][NextUpload]_vars

\* ------------------------------------------------- the routes, one request
\* A database an earlier import of n rows under the name "A" has left,
\* found by a server process that starts.
SeedMapping == [email |-> "Email", lastName |-> "Name"]

SeedCampaign(n) ==
  [id |-> 1, name |-> "A", fileName |-> "upload.csv", recordCount |-> n,
   fileSize |-> fileSizeLimit, status |-> "active", fieldMapping |-> SeedMapping]

SeedContacts(n) ==
  [k \in 1..n |-> insertContact(1, Row(k), SeedMapping) @@ [id |-> k]]

InitStore(n) ==
  /\ campaigns = {SeedCampaign(n)}
  /\ contacts = SeedContacts(n)
  /\ nextCampaignId = 2
  /\ nextContactId = n + 1
  /\ InitRequests
  /\ InitModal

Routes ==
  {"GET /api/campaigns", "GET /api/campaigns/:id",
   "GET /api/campaigns/:id/contacts", "POST /api/csv/parse",
   "POST /api/campaigns", "DELETE /api/campaigns/:id"}

\* Authorization headers: none, the Bearer scheme with a right or a wrong
\* token, and texts that are no Bearer header.
Authorizations ==
  {NoHeader} \cup
  {Header(s) : s \in {"Bearer demo123", "Bearer s3cret", "Bearer wrong", "Bearer ",
                      "Bearer Bearer demo123", "bearer demo123", "Basic demo123",
                      "demo123", ""}}

\* ACCESS_PASSWORD of the environment
Passwords == {"", "s3cret"}

\* One request: its route, its header, the :id and ?search it carries, and
\* the password the server runs with.
Requests ==
  [route : Routes, authorization : Authorizations, password : Passwords,
   id : {1, 2}, search : {"", "e1"}]

InitRoutes ==
  /\ InitServer \/ InitStore(2)
  /\ arg \in Requests
  /\ out = NoOut

Auth == requireAuth(arg.authorization, arg.password)

\* res.status(401).json({ message: 'Invalid password' }) of requireAuth
Unauthorized ==
  [done |-> TRUE, status |-> 401, message |-> "Invalid password", ops |-> <<>>]

Failed(message, ops) ==
  [done |-> TRUE, status |-> 500, message |-> message, ops |-> ops]

\* GET /api/campaigns
GetCampaigns ==
  /\ arg.route = "GET /api/campaigns"
  /\ ~out.done
  /\ IF ~Auth THEN out' = Unauthorized
     ELSE \E fails \in BOOLEAN :
            out' = IF fails
                   THEN Failed("Failed to fetch campaigns", <<"getCampaigns">>)
                   ELSE [done |-> TRUE, status |-> 200, ops |-> <<"getCampaigns">>,
                         body |-> getCampaigns]
  /\ UNCHANGED <<arg, modal, server>>

\* GET /api/campaigns/:id
GetCampaign ==
  /\ arg.route = "GET /api/campaigns/:id"
  /\ ~out.done
  /\ IF ~Auth THEN out' = Unauthorized
     ELSE \E fails \in BOOLEAN :
            out' = IF fails
                   THEN Failed("Failed to fetch campaign", <<"getCampaignById">>)
                   ELSE IF getCampaignById(arg.id) = {}
                   THEN [done |-> TRUE, status |-> 404, message |-> "Campaign not found",
                         ops |-> <<"getCampaignById">>]
                   ELSE [done |-> TRUE, status |-> 200, ops |-> <<"getCampaignById">>,
                         body |-> getCampaignById(arg.id)]
  /\ UNCHANGED <<arg, modal, server>>

\* GET /api/campaigns/:id/contacts: the search when a term is given, else
\* the listing with its fixed limit; the contacts are mapped and counted.
GetContacts ==
  /\ arg.route = "GET /api/campaigns/:id/contacts"
  /\ ~out.done
  /\ IF ~Auth THEN out' = Unauthorized
     ELSE LET op == IF arg.search # "" THEN "searchContactsInCampaign"
                    ELSE "getContactsByCampaignId"
              found == IF arg.search # ""
                       THEN searchContactsInCampaign(arg.id, arg.search)
                       ELSE getContactsByCampaignId(arg.id, listLimit, 0)
              processedContacts == [k \in DOMAIN found |-> processedContact(found[k])]
              totalCount == Len(processedContacts)
          IN  \E fails \in BOOLEAN :
                out' = IF fails
                       THEN Failed("Failed to fetch contacts", <<op>>)
                       ELSE [done |-> TRUE, status |-> 200, ops |-> <<op>>,
                             contacts |-> processedContacts,
                             pagination |-> [page |-> 1, limit |-> totalCount,
                                             total |-> totalCount, totalPages |-> 1]]
  /\ UNCHANGED <<arg, modal, server>>

\* POST /api/csv/parse: requireAuth, upload.single, and the header preview
\* of whatever text the file holds.  The store is not used.
PostCsvParse ==
  /\ arg.route = "POST /api/csv/parse"
  /\ ~out.done
  /\ IF ~Auth THEN out' = Unauthorized
     ELSE \E sent \in Uploads \cup {NoUpload}, text \in {"", "Email,Name\ne1,n"} :
            LET multer == uploadSingle(sent)
                parsed == parseCSV(text)
            IN  out' =
                  IF sent # NoUpload /\ multer.error # ""
                  THEN Failed(multer.error, <<>>)
                  ELSE IF sent = NoUpload
                  THEN [done |-> TRUE, status |-> 400,
                        message |-> "No CSV file provided", ops |-> <<>>]
                  ELSE IF ~parsed.ok
                  THEN Failed("Failed to parse CSV file", <<>>)
                  ELSE [done |-> TRUE, status |-> 200, ops |-> <<>>,
                        headers |-> parsed.headers,
                        detectedMapping |-> detectFields(parsed.headers),
                        rowCount |-> Len(parsed.rows)]
  /\ UNCHANGED <<arg, modal, server>>

\* POST /api/campaigns up to the handler's first await; the import then goes
\* on as the first request.
PostCampaigns ==
  /\ arg.route = "POST /api/campaigns"
  /\ ~out.done
  /\ Begin(Lead, Auth)
  /\ out' = [done |-> TRUE, status |-> res'[Lead].status,
             message |-> res'[Lead].message,
             ops |-> [k \in DOMAIN calls'[Lead] |-> calls'[Lead][k].op]]
  /\ UNCHANGED <<arg, modal>>

\* DELETE /api/campaigns/:id
DeleteCampaignRoute ==
  /\ arg.route = "DELETE /api/campaigns/:id"
  /\ ~out.done
  /\ IF ~Auth THEN
       /\ out' = Unauthorized
       /\ UNCHANGED <<campaigns, contacts, deleted>>
     ELSE \E fails \in BOOLEAN :
       IF fails THEN
         /\ out' = Failed("Failed to delete campaign", <<"deleteCampaign">>)
         /\ UNCHANGED <<campaigns, contacts, deleted>>
       ELSE
         /\ deleteCampaign(arg.id)
         /\ deleted' = deleted \cup {arg.id}
         /\ out' = [done |-> TRUE, status |-> 200,
                    message |-> "Campaign deleted successfully",
                    ops |-> <<"deleteCampaign">>]
  /\ UNCHANGED <<arg, modal, nextCampaignId, nextContactId, pc, authorized, hasFile, upload,
                 campaignName, fieldMappingRaw, fieldMapping, existingCampaign,
                 file, campaign, i, res, calls>>

NextRoutes ==
  \/ GetCampaigns
  \/ GetCampaign
  \/ GetContacts
  \/ PostCsvParse
  \/ PostCampaigns
  \/ GetCampaignByName(Lead)
  \/ ParseCSV(Lead, SmallFiles)
  \/ CreateCampaign(Lead)
  \/ CreateContacts(Lead)
  \/ DeleteCampaignRoute

SpecRoutes == InitRoutes /\ [][NextRoutes]_vars

\* ------------------------------------------ the contacts route on its own
\* Campaign sizes around the two limits, and search terms some contacts
\* hold and no contact holds.
ListSizes ==
  {0, 1, searchLimit, searchLimit + 1, listLimit, listLimit + 1}

ListRequests ==
  [route : {"GET /api/campaigns/:id/contacts"},
   authorization : {Header("Bearer demo123")}, password : {""},
   id : {1, 2}, search : {"", "e1", "n", "zzz"}]

InitList ==
  /\ \E n \in ListSizes : InitStore(n)
  /\ arg \in ListRequests
  /\ out = NoOut

SpecList == InitList /\ [][GetContacts]_vars

\* ------------------------------------------------------ the upload dialog
\* The files a user may pick or drop, and what POST /api/csv/parse answers
\* for each of them.
DialogFiles ==
  {[name |-> "a.csv", type |-> "text/csv", size |-> 1],
   [name |-> "b.csv", type |-> "text/csv", size |-> 2],
   [name |-> "notes.txt", type |-> "text/plain", size |-> 1]}

HeadersOf(f) == IF f.name = "a.csv" THEN headers ELSE <<"Phone">>

ParseResponse(f) ==
  [fileName |-> f.name, fileSize |-> f.size, rowCount |-> 1,
   headers |-> HeadersOf(f), detectedMapping |-> detectFields(HeadersOf(f))]

TypedNames == {"", " ", "A"}

UploadView == modal.open /\ modal.step = "upload"
MappingView == modal.open /\ modal.step = "mapping" /\ modal.fileInfo # NoFileInfo

\* resetModal()
resetModal(m) == [f \in DOMAIN m |-> IF f \in DOMAIN ResetModal THEN ResetModal[f] ELSE m[f]]

\* The dashboard's upload button: setShowUploadModal(true)
Open ==
  /\ ~modal.open
  /\ modal' = [modal EXCEPT !.open = TRUE]
  /\ UNCHANGED <<fn, server>>

\* handleClose: the Cancel buttons and the dialog's own close.
Close ==
  /\ modal.open
  /\ modal' = [resetModal(modal) EXCEPT !.open = FALSE]
  /\ UNCHANGED <<fn, server>>

\* The name input of the first step.
EditName ==
  /\ UploadView
  /\ \E name \in TypedNames : modal' = [modal EXCEPT !.campaignName = name]
  /\ UNCHANGED <<fn, server>>

\* What handleFileSelect and handleDrop do with the file they are given.
TakeFile(picked) ==
  modal' = IF picked.type = "text/csv"
           THEN [modal EXCEPT !.selectedFile = picked,
                              !.campaignName = replace(picked.name, ".csv", "")]
           ELSE modal

\* handleFileSelect
SelectFile ==
  /\ UploadView
  /\ \E picked \in DialogFiles : TakeFile(picked)
  /\ UNCHANGED <<fn, server>>

\* handleDrop
Drop ==
  /\ UploadView
  /\ \E picked \in DialogFiles : TakeFile(picked)
  /\ UNCHANGED <<fn, server>>

\* removeFile: the button of the file preview.
RemoveFile ==
  /\ UploadView
  /\ modal.selectedFile # NoSelection
  /\ modal' = [modal EXCEPT !.selectedFile = NoSelection, !.campaignName = ""]
  /\ UNCHANGED <<fn, server>>

\* proceedToMapping, behind a button that is disabled without a file or a
\* name and while the parse request is pending: the request is sent.
Continue ==
  /\ UploadView
  /\ modal.selectedFile # NoSelection
  /\ trim(modal.campaignName) # ""
  /\ modal.parsing = NoSelection
  /\ modal' = [modal EXCEPT !.parsing = modal.selectedFile]
  /\ UNCHANGED <<fn, server>>

\* parseCSVMutation.onSuccess: the answer for the file that was sent.
ParseSucceeds ==
  /\ modal.parsing # NoSelection
  /\ LET data == ParseResponse(modal.parsing)
     IN  modal' = [modal EXCEPT
                     !.fileInfo = [name |-> data.fileName, size |-> data.fileSize,
                                   rowCount |-> data.rowCount, headers |-> data.headers,
                                   detectedMapping |-> data.detectedMapping],
                     !.fieldMapping = data.detectedMapping,
                     !.step = "mapping",
                     !.parsing = NoSelection]
  /\ UNCHANGED <<fn, server>>

\* parseCSVMutation.onError
ParseFails ==
  /\ modal.parsing # NoSelection
  /\ modal' = [modal EXCEPT !.parsing = NoSelection, !.toast = "Parse Error"]
  /\ UNCHANGED <<fn, server>>

\* The Back button of the second step.
Back ==
  /\ MappingView
  /\ modal' = [modal EXCEPT !.step = "upload"]
  /\ UNCHANGED <<fn, server>>

\* updateFieldMapping: 'skip' and 'none' unset the field.
UpdateFieldMapping ==
  /\ MappingView
  /\ \E field \in {"email", "firstName"},
        value \in {modal.fileInfo.headers[k] : k \in DOMAIN modal.fileInfo.headers}
                    \cup {"skip", "none"} :
       modal' = [modal EXCEPT !.fieldMapping =
                   IF value \in {"skip", "none"}
                   THEN [f \in DOMAIN @ \ {field} |-> @[f]]
                   ELSE [f \in DOMAIN @ \cup {field} |-> IF f = field THEN value ELSE @[f]]]
  /\ UNCHANGED <<fn, server>>

\* Save Campaign: uploadCampaignMutation.mutate(); without a file or a name
\* the mutation fails at once, else the request is sent.
Save ==
  /\ MappingView
  /\ ~modal.saving
  /\ modal' = IF modal.selectedFile = NoSelection \/ trim(modal.campaignName) = ""
              THEN [modal EXCEPT !.toast = "Upload Failed"]
              ELSE [modal EXCEPT !.saving = TRUE]
  /\ UNCHANGED <<fn, server>>

\* uploadCampaignMutation.onSuccess: resetModal(), and the dashboard closes
\* the dialog.
SaveSucceeds ==
  /\ modal.saving
  /\ modal' = [resetModal(modal) EXCEPT !.saving = FALSE, !.open = FALSE,
                                        !.toast = "Upload Successful"]
  /\ UNCHANGED <<fn, server>>

\* uploadCampaignMutation.onError
SaveFails ==
  /\ modal.saving
  /\ modal' = [modal EXCEPT !.saving = FALSE, !.toast = "Upload Failed"]
  /\ UNCHANGED <<fn, server>>

NextModal ==
  \/ Open
  \/ Close
  \/ EditName
  \/ SelectFile
  \/ Drop
  \/ RemoveFile
  \/ Continue
  \/ ParseSucceeds
  \/ ParseFails
  \/ Back
  \/ UpdateFieldMapping
  \/ Save
  \/ SaveSucceeds
  \/ SaveFails

SpecModal == Init /\ [][NextModal]_vars

\* ===================================================================
\* Properties
\* ===================================================================
Conflict == [status |-> 400, message |-> "Campaign name already exists"]
ServerError == [status |-> 500, message |-> "Failed to upload campaign"]
InvalidData == [status |-> 400, message |-> "Invalid data format"]
NameRequired == [status |-> 400, message |-> "Campaign name is required"]
Success == [status |-> 200, message |-> "uploaded successfully"]

\* The store mutations request r has issued.
Mutations(r) ==
  {k \in DOMAIN calls[r] : calls[r][k].op \in {"createCampaign", "createContacts"}}

\* C1: when the store answers the duplicate-name check of an import while
\* it holds a campaign of exactly that name, the import ends with the
\* conflict error, the store is left as it was, and an import that ended
\* with the conflict error has issued no createCampaign and no
\* createContacts.
C1_DuplicateNameRejected ==
  /\ [][\A r \in Reqs :
          ( /\ pc[r] = "check"
            /\ pc'[r] # "check"
            /\ calls'[r][1].status = "ok"
            /\ \E c \in campaigns : c.name = campaignName[r] )
          => ( /\ pc'[r] = "done"
               /\ res'[r] = Conflict
               /\ store' = store )]_vars
  /\ [](\A r \in Reqs :
          (pc[r] = "done" /\ res[r] = Conflict)
          => (Mutations(r) = {} /\ campaign[r] = NoCampaign))

C1_Witness ==
  \E r \in Reqs :
    /\ pc[r] = "done"
    /\ res[r] = Conflict
    /\ \E c \in campaigns : c.name = campaignName[r]

\* C2: no two campaign rows have the same name.
C2_UniqueNames ==
  \A c1, c2 \in campaigns : c1.name = c2.name => c1 = c2

\* A batch insert of r failed after its campaign row was created.
PartialFailure(r) ==
  /\ pc[r] = "done"
  /\ campaign[r] # NoCampaign
  /\ calls[r][Len(calls[r])].op = "createContacts"
  /\ calls[r][Len(calls[r])].status = "failed"

\* r went through the handler and failed without creating anything.
TotalFailure(r) ==
  /\ pc[r] = "done"
  /\ res[r].status # 200
  /\ campaign[r] = NoCampaign

\* C3: the response to an import whose batch insert failed after the
\* campaign was created is not a success, and differs from the response to
\* any import that failed without creating anything.
C3_PartialFailureDistinct ==
  \A r \in Reqs :
    PartialFailure(r) =>
      /\ res[r].status # 200
      /\ \A s \in Reqs : TotalFailure(s) => res[s] # res[r]

\* C4: an import whose file failed to parse has ended in an error and has
\* issued no createCampaign and no createContacts; every campaign row and
\* every contact row of the store comes from another import.
C4_ParseErrorNoState ==
  \A r \in Reqs :
    file[r].parse = "error" =>
      /\ pc[r] = "done"
      /\ res[r].status >= 400
      /\ campaign[r] = NoCampaign
      /\ Mutations(r) = {}
      /\ \A c \in campaigns : \E s \in Reqs \ {r} : campaign[s].id = c.id
      /\ \A k \in DOMAIN contacts :
           \E s \in Reqs \ {r} : campaign[s].id = contacts[k].campaignId

C4_Witness ==
  \E r \in Reqs : file[r].parse = "error" /\ pc[r] = "done" /\ campaigns # {}


\* The import of r read its mapping payload, and the payload decodes to an
\* object with a key that is no standard field.
HasUnknownKey(r) ==
  /\ fieldMappingRaw[r].kind = "object"
  /\ ~(DOMAIN fieldMappingRaw[r].obj \subseteq StandardFields)

\* C5: an import whose mapping holds a key that is not one of the 11
\* standard fields ends with the validation error and creates no campaign.
C5_UnknownKeyRejected ==
  \A r \in Reqs :
    HasUnknownKey(r) =>
      /\ pc[r] = "done"
      /\ res[r] = InvalidData
      /\ calls[r] = <<>>
      /\ campaign[r] = NoCampaign

\* The payload of r cannot be decoded, or one of its values is no string.
Malformed(r) ==
  \/ fieldMappingRaw[r].kind = "invalid"
  \/ /\ fieldMappingRaw[r].kind = "object"
     /\ \E k \in DOMAIN fieldMappingRaw[r].obj : fieldMappingRaw[r].obj[k].t # "string"

\* C6: an import with a malformed mapping payload ends with the validation
\* error (status 400, not the generic 500) and has issued no store operation.
C6_MalformedIsValidationError ==
  \A r \in Reqs :
    Malformed(r) =>
      /\ pc[r] = "done"
      /\ res[r] = InvalidData
      /\ calls[r] = <<>>
      /\ campaign[r] = NoCampaign

\* C7: a request that carries a file and an empty campaignName is answered
\* 'Campaign name is required'; its mapping is never decoded or validated,
\* its file never parsed, and it issues no store operation.
C7_NameRequiredFirst ==
  \A r \in Reqs :
    (pc[r] # "idle" /\ hasFile[r] /\ campaignName[r] = "") =>
      /\ pc[r] = "done"
      /\ res[r] = NameRequired
      /\ fieldMappingRaw[r] = Unread
      /\ fieldMapping[r] = EmptyObj
      /\ file[r] = NoFile
      /\ calls[r] = <<>>
      /\ campaign[r] = NoCampaign

C7_Witness ==
  \E r \in Reqs :
    /\ pc[r] = "done" /\ hasFile[r] /\ campaignName[r] = ""
    /\ res[r] = NameRequired
    /\ campaigns # {}


\* The createContacts calls of r, in call order.
Batches(r) == SelectSeq(calls[r], LAMBDA c : c.op = "createContacts")

RECURSIVE Concat(_)
Concat(bs) == IF bs = <<>> THEN <<>> ELSE bs[1].batch \o Concat(Tail(bs))

Succeeded(r) == pc[r] = "done" /\ res[r] = Success

\* C8: the k-th createContacts call of an import of N rows carries 100
\* records if k < ceil(N/100) and the remaining N - 100*(ceil(N/100)-1) if
\* k = ceil(N/100); there is no call beyond that and none with an empty
\* batch; an import that succeeds has issued exactly ceil(N/100) calls,
\* whose sizes sum to N (100, 100, 50 for 250 rows).
C8_BatchSizes ==
  \A r \in Reqs :
    file[r].parse = "ok" =>
      LET N == file[r].n
          B == Batches(r)
          want == (N + 99) \div 100
      IN  /\ Len(B) <= want
          /\ \A k \in 1..Len(B) :
               /\ Len(B[k].batch) = IF k < want THEN 100 ELSE N - 100 * (want - 1)
               /\ Len(B[k].batch) > 0
          /\ Succeeded(r) =>
               /\ Len(B) = want
               /\ Len(Concat(B)) = N
               /\ N = 250 =>
                    <<Len(B[1].batch), Len(B[2].batch), Len(B[3].batch)>> = <<100, 100, 50>>

C8_Witness ==
  \E r \in Reqs : Succeeded(r) /\ file[r].n = 250 /\ Len(Batches(r)) = 3

\* C9: the batches passed to createContacts, concatenated in call order,
\* are the transformed rows 1, 2, 3, ... of the file in that order (all of
\* them once the import succeeds), and a call is issued only after every
\* earlier call of the import was answered successfully.
C9_SourceOrder ==
  \A r \in Reqs :
    LET cat == Concat(Batches(r))
    IN  /\ \A j \in 1..Len(cat) :
             /\ j <= file[r].n
             /\ cat[j] = insertContact(campaign[r].id, Row(j), fieldMapping[r])
             /\ ("email" \in DOMAIN fieldMapping[r] /\ fieldMapping[r].email = "Email")
                  => cat[j].email = Row(j).Email
        /\ Succeeded(r) => Len(cat) = file[r].n
        /\ \A k \in 1..(Len(calls[r]) - 1) : calls[r][k].status = "ok"

C9_Witness ==
  \E r \in Reqs :
    /\ Succeeded(r)
    /\ Len(Batches(r)) = 3
    /\ Concat(Batches(r))[101].email = "e101"

\* The contact rows stored for the campaign of r, without their ids.
StripId(c) == [f \in DOMAIN c \ {"id"} |-> c[f]]

Stored(r) ==
  LET rows == SelectSeq(contacts, LAMBDA c : c.campaignId = campaign[r].id)
  IN  [k \in 1..Len(rows) |-> StripId(rows[k])]

\* What holds of r's import when its k-th batch insert has failed.
AfterFailedBatch(r, k) ==
  /\ campaign[r] \in campaigns
  /\ Stored(r) = Concat(SubSeq(Batches(r), 1, k - 1))
  /\ Len(Stored(r)) < campaign[r].recordCount
  /\ k = Len(Batches(r))
  /\ pc[r] = "done"

\* C10 as stated: at the moment the k-th batch insert of an import fails,
\* the campaign row of the import exists, exactly the contacts of batches
\* 1..k-1 are stored for it (fewer than recordCount), and batch k is the
\* last one attempted.
C10_FailedBatchLeavesPrefix ==
  [][\A r \in Reqs :
       (pc[r] = "batch" /\ pc'[r] = "done" /\ res'[r] # Success)
       => AfterFailedBatch(r, Len(Batches(r)))']_vars

\* C10 amended: once the k-th batch insert of an import has failed, and as
\* long as no deleteCampaign has run for the campaign of the import, the
\* campaign row exists, exactly the contacts of batches 1..k-1 are stored
\* for it (fewer than recordCount), and batch k was the last one attempted.
C10_FailedBatchLeavesPrefixUnlessDeleted ==
  \A r \in Reqs : \A k \in 1..Len(Batches(r)) :
    (Batches(r)[k].status = "failed" /\ campaign[r].id \notin deleted)
    => AfterFailedBatch(r, k)

C10_Witness ==
  \E r \in Reqs :
    /\ Len(Batches(r)) = 2
    /\ Batches(r)[2].status = "failed"
    /\ campaign[r].id \notin deleted
    /\ Len(Stored(r)) = 100


\* C11: once an import has reported success, and as long as no
\* deleteCampaign has run for its campaign, the campaign row is in the store
\* with recordCount equal to the number of parsed rows, and exactly that
\* many contact rows are stored with the campaign's id.
C11_RecordCountMatchesStored ==
  \A r \in Reqs :
    (Succeeded(r) /\ campaign[r].id \notin deleted) =>
      /\ campaign[r] \in campaigns
      /\ campaign[r].recordCount = file[r].n
      /\ campaign[r].recordCount = Len(Rows(file[r]))
      /\ Len(Stored(r)) = file[r].n
      /\ Cardinality({k \in DOMAIN contacts :
                        contacts[k].campaignId = campaign[r].id}) = file[r].n

C11_Witness ==
  \E r \in Reqs :
    /\ Succeeded(r)
    /\ campaign[r].id \notin deleted
    /\ file[r].n = 250
    /\ Len(Stored(r)) = 250


\* C12: the record the row map makes of a row under a mapping has the
\* standard field f set iff the mapping has a (non-empty) column for f that
\* is not 'skip' and the row's cell in that column is a non-empty string;
\* the value is then that cell; no field holds the empty string, and
\* nothing but mapped standard fields is set.
C12_RowTransform ==
  out.done =>
    LET row == arg.row
        mapping == arg.mapping
        rec == out.value
    IN  /\ \A f \in StandardFields :
             (f \in DOMAIN rec) <=>
               ( /\ f \in DOMAIN mapping
                 /\ mapping[f] # ""
                 /\ mapping[f] # "skip"
                 /\ mapping[f] \in DOMAIN row
                 /\ row[mapping[f]] # "" )
        /\ \A f \in DOMAIN rec :
             /\ f \in StandardFields
             /\ rec[f] = row[mapping[f]]
             /\ rec[f] # ""

\* A record with email set from its cell, while firstName is mapped to a
\* column whose cell is blank and stays absent.
C12_Witness ==
  /\ out.done
  /\ DOMAIN arg.mapping = {"firstName", "email"}
  /\ arg.mapping.firstName = "Name"
  /\ "Name" \in DOMAIN arg.row
  /\ arg.row["Name"] = ""
  /\ DOMAIN out.value = {"email"}
  /\ out.value.email = "x"


\* The mapping m holds neither sentinel, and only columns of the header row.
OnlyColumns(m) ==
  \A f \in DOMAIN m :
    /\ m[f] \notin {"skip", "none"}
    /\ \E k \in DOMAIN headers : headers[k] = m[f]

\* C13: the mapping validated for an import, used for its rows and stored
\* with its campaign has no entry that is "skip" or "none" and no entry
\* that is not a column of the parsed header row.
C13_MappingHoldsOnlyColumns ==
  /\ \A r \in Reqs : OnlyColumns(fieldMapping[r])
  /\ \A c \in campaigns : OnlyColumns(c.fieldMapping)


\* C14: for the headers Company, Company LinkedIn Url detection maps
\* company to "Company" and companyLinkedinUrl to "Company LinkedIn Url".
C14_Specificity ==
  (out.done /\ arg.headers = CompanyHeaders) =>
    /\ {"company", "companyLinkedinUrl"} \subseteq DOMAIN out.value
    /\ out.value.company = "Company"
    /\ out.value.companyLinkedinUrl = "Company LinkedIn Url"
    /\ out.value.company # out.value.companyLinkedinUrl

\* C15: for the headers First Name, Last Name, E-mail, Mobile Phone,
\* LinkedIn detection returns exactly firstName, lastName, email,
\* mobilePhone and personLinkedinUrl, each mapped to its header.
C15_DetectionTable ==
  (out.done /\ arg.headers = TableHeaders) =>
    out.value = [firstName |-> "First Name", lastName |-> "Last Name",
                 email |-> "E-mail", mobilePhone |-> "Mobile Phone",
                 personLinkedinUrl |-> "LinkedIn"]

\* The positions of the headers that match field f.
Matching(f, hs) == {k \in DOMAIN hs : matches(f, hs[k])}

Last(S) == CHOOSE k \in S : \A j \in S : j <= k

\* C16: detection maps every standard field that some header matches
\* (lower-cased and trimmed, the header contains one of the field's
\* patterns) to the last matching header, and leaves a field unmapped
\* exactly when no header matches it.
C16_LastMatchWins ==
  out.done =>
    /\ DOMAIN out.value \subseteq StandardFields
    /\ \A f \in StandardFields :
         IF Matching(f, arg.headers) = {}
         THEN f \notin DOMAIN out.value
         ELSE /\ f \in DOMAIN out.value
              /\ out.value[f] = arg.headers[Last(Matching(f, arg.headers))]

\* Two headers match email, and the later one is taken.
C16_Witness ==
  /\ out.done
  /\ arg.headers = <<"E-mail", " EMAIL ", "Notes">>
  /\ out.value = [email |-> " EMAIL "]


\* The text is zero bytes long or holds nothing but whitespace.
Blank(text) == trim(text) = ""

\* The text is a header line and nothing else.
HeaderOnly(text) ==
  \E line \in {"a", "a,b", "Email,Name"} : text \in {line, line \o "\n"}

\* C17: a zero-byte or whitespace-only buffer is not parsed successfully,
\* neither by a parser nor by the header preview; a header-only file is,
\* and the preview reports rowCount 0 for it.
C17_BlankRejected ==
  out.done =>
    /\ Blank(arg.text) =>
         IF out.by = "POST /api/csv/parse" THEN out.status # 200 ELSE ~out.ok
    /\ HeaderOnly(arg.text) =>
         IF out.by = "POST /api/csv/parse"
         THEN out.status = 200 /\ out.rowCount = 0
         ELSE out.ok /\ Len(out.rows) = 0

\* C18: the line "Doe, Jr.",CEO under the headers name,title is parsed as
\* one row of two fields, name being Doe, Jr. and title CEO.
C18_QuotedCell ==
  (out.done /\ out.by \in {"parseCSVFile", "parseCSV"} /\ arg.text = QuotedText) =>
    /\ out.ok
    /\ out.headers = <<"name", "title">>
    /\ Len(out.rows) = 1
    /\ out.rows[1] = [name |-> "Doe, Jr.", title |-> "CEO"]

\* The lines of the text that parseCSVFile reads: those that are not blank.
NonBlankLines(text) ==
  SelectSeq(split(text, "\n"), LAMBDA line : trim(line) # "")

TooLarge == [status |-> 500, message |-> "File too large"]

C21_ReferentialIntegrity ==
  /\ \A k \in DOMAIN contacts :
       \E c \in campaigns : c.id = contacts[k].campaignId
  /\ \A id \in deleted :
       /\ \A c \in campaigns : c.id # id
       /\ \A k \in DOMAIN contacts : contacts[k].campaignId # id

\* An import had its first batch stored, its campaign was deleted, and its
\* second batch was then refused: nothing of it is left.
C21_Witness ==
  \E r \in Reqs :
    /\ Len(Batches(r)) = 2
    /\ Batches(r)[1].status = "ok"
    /\ Len(Batches(r)[1].batch) = batchSize
    /\ Batches(r)[2].status = "failed"
    /\ campaign[r].id \in deleted
    /\ contacts = <<>>


C23_DecryptNeverRaises ==
  out.done =>
    /\ ~out.threw
    /\ (arg.encryptedData.data = Undefined \/ ~out.final)
         => out.value = arg.encryptedData

\* A well-formed blob the decipher rejected came back as it was stored.
C23_Witness ==
  /\ out.done
  /\ ~out.final
  /\ arg.encryptedData.data \in BlobTexts
  /\ out.value = arg.encryptedData


\* The records of the createContacts calls of r the store has answered.
Inserted(r) ==
  Concat(SelectSeq(Batches(r), LAMBDA c : c.status = "ok"))

\* C24: every record an import passes to createContacts, and every contact
\* stored, carries the id of the campaign row that import's own
\* createCampaign call returned: the campaigns of two imports differ, all
\* records of one import share its campaign's id, and the contacts stored
\* under a campaign are records its own import inserted.
C24_ContactsCarryOwnCampaign ==
  /\ \A r \in Reqs :
       \A k \in DOMAIN Batches(r) : \A j \in DOMAIN Batches(r)[k].batch :
         /\ campaign[r].id # 0
         /\ Batches(r)[k].batch[j].campaignId = campaign[r].id
  /\ \A r, q \in Reqs :
       (r # q /\ campaign[r].id # 0) => campaign[r].id # campaign[q].id
  /\ \A k \in DOMAIN contacts :
       \E r \in Reqs :
         /\ campaign[r].id = contacts[k].campaignId
         /\ \E j \in DOMAIN Inserted(r) : Inserted(r)[j] = StripId(contacts[k])
  /\ \A r \in Reqs :
       campaign[r].id # 0 => Len(Stored(r)) <= Len(Inserted(r))

\* Two imports ran interleaved, the one whose campaign was created second
\* storing its contacts first; each has its two contacts under its own id.
C24_Witness ==
  \E r, q \in Reqs :
    /\ r # q
    /\ Succeeded(r) /\ Succeeded(q)
    /\ campaign[r].id < campaign[q].id
    /\ Len(contacts) = 4
    /\ contacts[1].campaignId = campaign[q].id
    /\ contacts[2].campaignId = campaign[q].id
    /\ contacts[3].campaignId = campaign[r].id
    /\ contacts[4].campaignId = campaign[r].id


\* The standard-field columns written with an insert record or a stored row.
ColumnsOf(c) == DOMAIN c \ {"id", "campaignId", "encryptedData"}

\* The record serialized into the blob of c is the record of c's columns.
BlobIsColumns(c) ==
  /\ ColumnsOf(c) \subseteq StandardFields
  /\ c.encryptedData.data = JSONstringify([f \in ColumnsOf(c) |-> c[f]])
  /\ c.encryptedData.data.json = {<<f, c[f]>> : f \in ColumnsOf(c)}

\* C25: for every contact an import produces (every record it passes to
\* createContacts and every row stored), the record serialized into its
\* encryptedData blob has exactly the fields and values of the standard-field
\* columns written with that contact.
C25_BlobHoldsTheColumns ==
  /\ \A k \in DOMAIN contacts : BlobIsColumns(contacts[k])
  /\ \A r \in Reqs : \A j \in DOMAIN Concat(Batches(r)) :
       BlobIsColumns(Concat(Batches(r))[j])

\* A contact stored with two columns and one stored with a single column
\* (the blank name cell was left out), each with the same record in its blob.
C25_Witness ==
  \E j, k \in DOMAIN contacts :
    /\ ColumnsOf(contacts[j]) = {"email", "lastName"}
    /\ contacts[j].encryptedData.data =
         JSONstringify([email |-> "e1", lastName |-> "n"])
    /\ ColumnsOf(contacts[k]) = {"email"}
    /\ contacts[k].encryptedData.data = JSONstringify([email |-> "e2"])


\* The store operations r has issued, in call order.
Ops(r) == [k \in DOMAIN calls[r] |-> calls[r][k].op]

\* C27: within one import the store operations are issued in the order
\* getCampaignByName, createCampaign, createContacts ...: the lookup is the
\* first call and is made once; createCampaign is made at most once, as the
\* second call, and only after the lookup was answered with no campaign of
\* that name and the file was parsed; every createContacts comes after a
\* createCampaign that was answered.
C27_StoreCallOrder ==
  \A r \in Reqs : \A k \in DOMAIN calls[r] :
    /\ (Ops(r)[k] = "getCampaignByName") <=> (k = 1)
    /\ Ops(r)[k] = "createCampaign" =>
         /\ k = 2
         /\ calls[r][1].status = "ok"
         /\ existingCampaign[r] = {}
         /\ file[r].parse = "ok"
    /\ Ops(r)[k] = "createContacts" =>
         /\ k >= 3
         /\ Ops(r)[2] = "createCampaign"
         /\ calls[r][2].status = "ok"
         /\ campaign[r].id # 0

\* An import of three batches has run to its end: five calls in order.
C27_Witness ==
  \E r \in Reqs :
    /\ Succeeded(r)
    /\ Ops(r) = <<"getCampaignByName", "createCampaign", "createContacts",
                  "createContacts", "createContacts">>


\* The Authorization header carries no token that is the configured access
\* password: there is no header, or it is "Bearer " and a token that differs.
WrongToken(request) ==
  \/ ~request.authorization.present
  \/ \E token \in {"demo123", "s3cret", "wrong", "", "Bearer demo123"} :
       /\ request.authorization.value = "Bearer " \o token
       /\ token # validPassword(request.password)

\* C29: a request to a campaign, contact or CSV route whose bearer token
\* differs from the configured access password (or that carries none) is
\* answered 401 'Invalid password', issues no store operation, and leaves
\* the store as it was.
C29_NoStoreOperationWithoutPassword ==
  [][(~out.done /\ out'.done /\ WrongToken(arg)) =>
       /\ out' = Unauthorized
       /\ store' = store
       /\ deleted' = deleted
       /\ calls' = calls]_vars

\* A delete with a wrong token was refused while the campaign it names and
\* its contacts are stored.
C29_Witness ==
  /\ out = Unauthorized
  /\ arg.route = "DELETE /api/campaigns/:id"
  /\ arg.authorization = Header("Bearer wrong")
  /\ arg.id = 1
  /\ \E c \in campaigns : c.id = 1
  /\ Len(contacts) = 2


\* The contacts stored for the campaign the request names.
StoredFor(id) == SelectSeq(contacts, LAMBDA c : c.campaignId = id)

\* C26: a listing without a search term returns every contact stored for
\* the campaign, whatever their number, and pagination.total is the number
\* of contacts stored for it.
C26_ListingReturnsAll ==
  (out.done /\ out.status = 200 /\ arg.search = "") =>
    LET stored == StoredFor(arg.id)
    IN  /\ Len(out.contacts) = Len(stored)
        /\ out.pagination.total = Len(stored)
        /\ \A k \in DOMAIN out.contacts :
             out.contacts[k] = processedContact(stored[k])

\* Some standard field of the contact holds the term, letter case aside.
MatchesTerm(contact, term) ==
  \E f \in StandardFields :
    includes(toLowerCase(contact[f]), toLowerCase(term))

\* C30: a listing with a search term returns only contacts of that campaign
\* that match the term.
C30_SearchReturnsOnlyMatches ==
  (out.done /\ out.status = 200 /\ arg.search # "") =>
    \A k \in DOMAIN out.contacts :
      /\ out.contacts[k].campaignId = arg.id
      /\ MatchesTerm(out.contacts[k], arg.search)


\* C28: whenever the dialog's step is 'mapping', a file is selected and the
\* fileInfo held is that of the selected file, under every interleaving of
\* the user's actions with the completion of the parse request.
C28_MappingStepHasItsFile ==
  modal.step = "mapping" =>
    /\ modal.selectedFile # NoSelection
    /\ modal.fileInfo # NoFileInfo
    /\ modal.fileInfo.name = modal.selectedFile.name
    /\ modal.fileInfo.size = modal.selectedFile.size

====
